---- MODULE Spec2Model ----
(***************************************************************************)
(* Time-capsule delivery scheduler: the record store queries of the        *)
(* controller (getCapsulesToSend, markCapsuleAsSent, createTimeCapsule),   *)
(* the delivery channel (sendTimeCapsuleEmail), the batch processor        *)
(* (processBatch, processCapsule) and the scheduler's control surface      *)
(* (runScheduler, startScheduler, stopScheduler, runSchedulerManually,     *)
(* resetSchedulerStats).                                                   *)
(*                                                                         *)
(* Collaborators outside the repository (the PostgreSQL driver behind      *)
(* db.query, nodemailer, node-cron) either do what the call asks or raise. *)
(* The repository's own Logger class is modelled as written: a call of a   *)
(* method the class does not define raises a TypeError at the call site.   *)
(*                                                                         *)
(* Specifications:                                                         *)
(*   Spec       the scheduler module driven through its control surface    *)
(*              and its timers, over the record store;                     *)
(*   LiveSpec   Spec with the timers firing again and again;               *)
(*   StoreSpec  the record store operations called directly;               *)
(*   BatchSpec  processBatch applied to the result of getCapsulesToSend,    *)
(*              at time BatchNow;                                          *)
(*   ChunkSpec  the partition step of processBatch applied to a list;      *)
(*   CapsuleSpec  processCapsule applied to one due capsule, for each      *)
(*              value sendTimeCapsuleEmail can return;                     *)
(*   OrderSpec  processBatch over capsules that fell due at different      *)
(*              times;                                                     *)
(*   ResetSpec  processBatch with resetSchedulerStats called during it;    *)
(*   RouteSpec  handleRoutes applied to one request.                       *)
(***************************************************************************)
EXTENDS Integers, Sequences, FiniteSets, TLC

\* ---- bounds of the model ----
MaxRows == 2
MaxCapsules == 3
MaxNow == 2
MaxDate == 2
MaxTriggers == 2
MaxJobs == 2
MaxPollers == 1
MaxConcurrent == 2
MaxChunkLen == 7
MaxChunkM == 4
MaxChunkBase == 2
MaxPathLen == 3

\* the null of a nullable timestamp or field; times are 0 and up
NULL == -1

\* the value of NOW() at the fetch whose result processBatch and processCapsule are given
BatchNow == 1

VARIABLES
  table,              \* rows of time_capsules, in id order (id SERIAL)
  now,                \* the clock: NOW() / new Date()
  fetchLog,           \* the last result of getCapsulesToSend called directly, and what happened since
  markLog,            \* the last call of markCapsuleAsSent made directly, and its outcome
  marked,             \* per id, whether a call of markCapsuleAsSent for it has succeeded
  config,             \* SCHEDULER_CONFIG: isRunning, lastRun, nextRun, totalProcessed, totalErrors
  processingState,    \* processingState of scheduler.js
  cronValid,          \* cron.validate(SCHEDULER_CONFIG.cronPattern)
  cronJobs,           \* started node-cron tasks
  pollers,            \* setInterval pollers of pending stopScheduler calls
  liveCycles,         \* runScheduler invocations past the guard that have not settled
  nTriggers,          \* runScheduler invocations so far
  callLog,            \* the last control-surface call and what it returned
  maxConcurrentEmails,\* SCHEDULER_CONFIG.maxConcurrentEmails
  batchPc,            \* position of processBatch
  capsulesToSend,     \* the argument of processBatch
  batches,            \* const batches of processBatch
  chunkIdx,           \* index of the batch the for loop is at
  tasks,              \* per capsule of capsulesToSend, the state of its processCapsule promise
  results,            \* const results of processBatch
  dispatched,         \* per capsule id, how many times transporter.sendMail delivered it
  pausesDone,         \* inter-batch pauses that have elapsed
  outOfOrder,         \* a capsule has settled while one before it in its batch had not
  credsOk,            \* EMAIL_CONFIG.user and EMAIL_CONFIG.pass are both set
  chunkIn,            \* ChunkSpec: the list to partition
  chunkOut,           \* ChunkSpec: the batches built from chunkIn
  pcIn,               \* CapsuleSpec: the capsule given to processCapsule and what its awaits yield
  pcOut,              \* CapsuleSpec: what processCapsule returned
  request,            \* RouteSpec: method and pathname of the request given to handleRoutes
  routed              \* RouteSpec: the handler handleRoutes called and the status it answered

storeVars == <<table, now>>
histVars == <<fetchLog, markLog, marked>>
schedVars == <<config, processingState, cronValid, cronJobs, pollers, liveCycles, nTriggers, callLog>>
batchVars == <<maxConcurrentEmails, batchPc, capsulesToSend, batches, chunkIdx, tasks, results, dispatched, pausesDone, outOfOrder, credsOk>>
chunkVars == <<chunkIn, chunkOut>>
unitVars == <<pcIn, pcOut>>
routeVars == <<request, routed>>
vars == <<storeVars, histVars, schedVars, batchVars, chunkVars, unitVars, routeVars>>

Min(a, b) == IF a < b THEN a ELSE b

\* ======================= the record store =======================

\* INSERT INTO time_capsules (..., open_date, status) VALUES (..., 'pending'); sent_at defaults to NULL
InsertRow(t, openDate) ==
  Append(t, [id |-> Len(t) + 1, status |-> "pending", open_date |-> openDate, sent_at |-> NULL])

\* sentAt: capsule.sent_at || null
formatTimeCapsuleResponse(capsule) ==
  [id |-> capsule.id,
   openDate |-> capsule.open_date,
   status |-> capsule.status,
   sentAt |-> IF capsule.sent_at = NULL THEN NULL ELSE capsule.sent_at]

\* validateTimeCapsuleData: 'Data de abertura deve ser uma data futura' when openDate <= new Date()
OpenDateValid(openDate, n) == ~(openDate <= n)

\* WHERE status = 'pending' AND open_date <= NOW()
DueMutStrict(t, n) ==
  {i \in 1..Len(t) : t[i].status = "pending" /\ t[i].open_date < n}

Due(t, n) ==
  {i \in 1..Len(t) : t[i].status = "pending" /\ t[i].open_date <= n}

\* ORDER BY open_date ASC: rows with equal open_date come in an order SQL leaves open
OrderedAscMutDesc(t, s) ==
  \A i, j \in 1..Len(s) : i < j => t[s[i]].open_date >= t[s[j]].open_date

OrderedAsc(t, s) ==
  \A i, j \in 1..Len(s) : i < j => t[s[i]].open_date <= t[s[j]].open_date

SelectDue(t, n) ==
  {s \in [1..Cardinality(Due(t, n)) -> Due(t, n)] :
     /\ \A i, j \in 1..Len(s) : i # j => s[i] # s[j]
     /\ OrderedAsc(t, s)}

\* getCapsulesToSend: result.rows.map(formatTimeCapsuleResponse), one value per admissible row order
getCapsulesToSend(t, n) ==
  {[k \in 1..Len(s) |-> formatTimeCapsuleResponse(t[s[k]])] : s \in SelectDue(t, n)}

\* UPDATE time_capsules SET status = 'sent', sent_at = NOW() WHERE id = $1 RETURNING *
UpdatedRows(t, capsuleId) == {i \in 1..Len(t) : t[i].id = capsuleId}

SetSentMutNoStamp(row, n) == [row EXCEPT !.status = "sent"]

SetSentMutPending(row, n) == [row EXCEPT !.status = IF row.status = "sent" THEN "pending" ELSE "sent", !.sent_at = n]

SetSent(row, n) == [row EXCEPT !.status = "sent", !.sent_at = n]

UpdateSent(t, capsuleId, n) ==
  [i \in 1..Len(t) |-> IF t[i].id = capsuleId THEN SetSent(t[i], n) ELSE t[i]]

\* markCapsuleAsSent throws when db.query raises or when no row was updated
markCapsuleAsSentOk(t, capsuleId, dbOk) == dbOk /\ UpdatedRows(t, capsuleId) # {}

RowOf(t, capsuleId) == IF capsuleId \in 1..Len(t) THEN t[capsuleId] ELSE NULL

\* ---- store operations as actions ----

\* what a change of the table or of the clock does to the record of the last direct fetch
Touched(log, t2, n2) ==
  [log EXCEPT !.storeSame = @ /\ t2 = table, !.nowSame = @ /\ n2 = now]

\* POST /api/capsules -> createTimeCapsule
CreateTimeCapsule ==
  /\ Len(table) < MaxRows
  /\ \E openDate \in 0..MaxDate, dbOk \in BOOLEAN :
       table' = IF OpenDateValid(openDate, now) /\ dbOk THEN InsertRow(table, openDate) ELSE table
  /\ fetchLog' = Touched(fetchLog, table', now)
  /\ UNCHANGED <<now, markLog, marked, schedVars, batchVars, chunkVars, unitVars, routeVars>>

\* time passes
Tick ==
  /\ now < MaxNow
  /\ now' = now + 1
  /\ fetchLog' = Touched(fetchLog, table, now')
  /\ UNCHANGED <<table, markLog, marked, schedVars, batchVars, chunkVars, unitVars, routeVars>>

\* getCapsulesToSend() called directly; a raise leaves no result
CallGetCapsulesToSend ==
  /\ \E dbOk \in BOOLEAN :
       IF dbOk
       THEN \E rows \in getCapsulesToSend(table, now) :
              fetchLog' = [rows |-> rows, valid |-> TRUE, storeSame |-> TRUE, nowSame |-> TRUE]
       ELSE fetchLog' = fetchLog
  /\ UNCHANGED <<storeVars, markLog, marked, schedVars, batchVars, chunkVars, unitVars, routeVars>>

\* markCapsuleAsSent(capsuleId) called directly
CallMarkCapsuleAsSent ==
  /\ \E capsuleId \in 1..(MaxRows + 1), dbOk \in BOOLEAN :
       /\ table' = IF markCapsuleAsSentOk(table, capsuleId, dbOk)
                   THEN UpdateSent(table, capsuleId, now) ELSE table
       /\ markLog' = [capsuleId |-> capsuleId,
                      ok |-> markCapsuleAsSentOk(table, capsuleId, dbOk),
                      dbOk |-> dbOk,
                      priorOk |-> marked[capsuleId],
                      changed |-> RowOf(table', capsuleId) # RowOf(table, capsuleId)]
       /\ marked' = [marked EXCEPT ![capsuleId] = @ \/ markCapsuleAsSentOk(table, capsuleId, dbOk)]
  /\ fetchLog' = Touched(fetchLog, table', now)
  /\ UNCHANGED <<now, schedVars, batchVars, chunkVars, unitVars, routeVars>>

\* ---- initial values ----
\* a processCapsule promise that has not been created, and the result it does not have yet
NoOutcome == [success |-> FALSE, capsuleId |-> 0, error |-> "none"]

IdleTask == [phase |-> "idle", retryCount |-> 0, outcome |-> NoOutcome]

InitStore ==
  /\ table = <<>>
  /\ now = 0

InitHist ==
  /\ fetchLog = [rows |-> <<>>, valid |-> FALSE, storeSame |-> FALSE, nowSame |-> FALSE]
  /\ markLog = [capsuleId |-> 0, ok |-> FALSE, dbOk |-> FALSE, priorOk |-> FALSE, changed |-> FALSE]
  /\ marked = [i \in 1..(MaxRows + 1) |-> FALSE]

InitSched ==
  /\ config = [isRunning |-> FALSE, lastRun |-> NULL, nextRun |-> NULL,
               totalProcessed |-> 0, totalErrors |-> 0]
  /\ processingState = [isProcessing |-> FALSE, startTime |-> NULL,
                        processedCount |-> 0, errorCount |-> 0, currentBatch |-> <<>>]
  /\ cronJobs = 0
  /\ pollers = 0
  /\ liveCycles = 0
  /\ nTriggers = 0
  /\ callLog = [op |-> "none", result |-> NULL]

InitBatchIdle ==
  /\ batchPc = "idle"
  /\ capsulesToSend = <<>>
  /\ batches = <<>>
  /\ chunkIdx = 0
  /\ tasks = [i \in 1..MaxCapsules |-> IdleTask]
  /\ results = <<>>
  /\ dispatched = [i \in 1..MaxCapsules |-> 0]
  /\ pausesDone = 0
  /\ outOfOrder = FALSE

InitChunkIdle ==
  /\ chunkIn = <<>>
  /\ chunkOut = [done |-> FALSE, batches |-> <<>>]

InitUnitIdle ==
  /\ pcIn = [capsuleId |-> 0, emailResult |-> "none", dbOk |-> FALSE]
  /\ pcOut = [done |-> FALSE, outcome |-> NoOutcome]

InitRouteIdle ==
  /\ request = [method |-> "none", path |-> <<>>]
  /\ routed = [done |-> FALSE, handler |-> "none", status |-> 0]

StoreInit ==
  /\ InitStore /\ InitHist /\ InitSched /\ InitBatchIdle /\ InitChunkIdle /\ InitUnitIdle /\ InitRouteIdle
  /\ cronValid = TRUE
  /\ maxConcurrentEmails = 1
  /\ credsOk = TRUE

StoreNext ==
  \/ CreateTimeCapsule
  \/ Tick
  \/ CallGetCapsulesToSend
  \/ CallMarkCapsuleAsSent

StoreSpec == StoreInit /\ [][StoreNext]_vars

\* ======================= the logger =======================

\* the methods class Logger defines; logger.<m>(...) for any other m is a TypeError
LoggerMethods ==
  {"getLogLevel", "ensureLogDirectory", "formatMessage", "writeToFile", "log",
   "error", "warn", "info", "debug", "request", "database", "email", "scheduler",
   "cleanOldLogs"}

LoggerCallThrows(method) == method \notin LoggerMethods

\* ======================= the scheduler's control surface =======================

\* runScheduler's guard: if (processingState.isProcessing) { warn; return }
SchedulerBusyMutNever(ps) == FALSE

SchedulerBusy(ps) == ps.isProcessing

\* runScheduler, lines 142-146: the state a cycle starts from
EnterCycle(ps, n) ==
  [isProcessing |-> TRUE, startTime |-> n, processedCount |-> 0, errorCount |-> 0,
   currentBatch |-> <<>>]

\* how one runScheduler() invocation ends up: "skipped" at the guard, "threw" at
\* logger.schedulerRun (called after the flag is set and before the try), "entered" otherwise
RunSchedulerOutcome(ps) ==
  IF SchedulerBusy(ps) THEN "skipped"
  ELSE IF LoggerCallThrows("schedulerRun") THEN "threw"
  ELSE "entered"

\* one invocation of runScheduler up to the point where it returns, throws or first awaits
RunScheduler(op, resultOf) ==
  /\ nTriggers < MaxTriggers
  /\ nTriggers' = nTriggers + 1
  /\ processingState' = IF SchedulerBusy(processingState) THEN processingState
                        ELSE EnterCycle(processingState, now)
  /\ liveCycles' = IF RunSchedulerOutcome(processingState) = "entered"
                   THEN liveCycles + 1 ELSE liveCycles
  /\ callLog' = [op |-> op, result |-> resultOf[RunSchedulerOutcome(processingState)]]
  /\ UNCHANGED <<config, cronValid, cronJobs, pollers>>
  /\ UNCHANGED <<storeVars, histVars, batchVars, chunkVars, unitVars, routeVars>>

\* the node-cron task's callback: try { await runScheduler() } catch { logger.error }
CronFire ==
  /\ cronJobs > 0
  /\ RunScheduler("cron", [skipped |-> "skipped", threw |-> "caught", entered |-> "running"])

\* runSchedulerManually's try/catch around await runScheduler(): { success: true, ... } when
\* it returns, { success: false, error: error.message, ... } when it throws
ManualResultMutRethrow(outcome) ==
  IF outcome = "skipped" THEN "success:true"
  ELSE IF outcome = "threw" THEN "threw"
  ELSE "running"

ManualResult(outcome) ==
  IF outcome = "skipped" THEN "success:true"
  ELSE IF outcome = "threw" THEN "success:false"
  ELSE "running"

\* runSchedulerManually: success:true when runScheduler returns, success:false when it throws
RunSchedulerManually ==
  RunScheduler("manual", [o \in {"skipped", "threw", "entered"} |-> ManualResult(o)])

\* startScheduler
StartScheduler ==
  /\ IF config.isRunning \/ ~cronValid
     THEN /\ callLog' = [op |-> "start", result |-> "false"]
          /\ UNCHANGED <<config, cronJobs>>
     ELSE /\ cronJobs < MaxJobs
          /\ cronJobs' = cronJobs + 1
          /\ \E nextDateOk \in BOOLEAN :
               /\ config' = [config EXCEPT !.isRunning = TRUE,
                                           !.nextRun = IF nextDateOk THEN now + 1 ELSE @]
               /\ callLog' = [op |-> "start",
                              result |-> IF nextDateOk /\ ~LoggerCallThrows("schedulerRun")
                                         THEN "true" ELSE "threw"]
  /\ UNCHANGED <<processingState, cronValid, pollers, liveCycles, nTriggers>>
  /\ UNCHANGED <<storeVars, histVars, batchVars, chunkVars, unitVars, routeVars>>

\* stopScheduler: false when not running, else a promise behind a 1 s setInterval poller
StopScheduler ==
  /\ IF ~config.isRunning
     THEN /\ callLog' = [op |-> "stop", result |-> "false"]
          /\ UNCHANGED pollers
     ELSE /\ pollers < MaxPollers
          /\ pollers' = pollers + 1
          /\ callLog' = [op |-> "stop", result |-> "pending"]
  /\ UNCHANGED <<config, processingState, cronValid, cronJobs, liveCycles, nTriggers>>
  /\ UNCHANGED <<storeVars, histVars, batchVars, chunkVars, unitVars, routeVars>>

\* the poller's test: if (!processingState.isProcessing) { clearInterval; resolve() }
DrainedMutAlways(ps) == TRUE

Drained(ps) == ~ps.isProcessing

\* the poller fires: resolves once isProcessing is false; the .then clears isRunning and
\* nextRun and then calls logger.schedulerRun
StopPoll ==
  /\ pollers > 0
  /\ IF ~Drained(processingState)
     THEN UNCHANGED <<pollers, config, callLog>>
     ELSE /\ pollers' = pollers - 1
          /\ config' = [config EXCEPT !.isRunning = FALSE, !.nextRun = NULL]
          /\ callLog' = [op |-> "stopped",
                         result |-> IF LoggerCallThrows("schedulerRun") THEN "rejected" ELSE "true"]
  /\ UNCHANGED <<processingState, cronValid, cronJobs, liveCycles, nTriggers>>
  /\ UNCHANGED <<storeVars, histVars, batchVars, chunkVars, unitVars, routeVars>>

\* resetSchedulerStats' three assignments
ResetStatsMutKeepErrors(cfg) == [cfg EXCEPT !.totalProcessed = 0, !.lastRun = NULL]

ResetStats(cfg) == [cfg EXCEPT !.totalProcessed = 0, !.totalErrors = 0, !.lastRun = NULL]

\* resetSchedulerStats
ResetSchedulerStats ==
  /\ config' = ResetStats(config)
  /\ callLog' = [op |-> "reset", result |-> "success:true"]
  /\ UNCHANGED <<processingState, cronValid, cronJobs, pollers, liveCycles, nTriggers>>
  /\ UNCHANGED <<storeVars, histVars, batchVars, chunkVars, unitVars, routeVars>>

Init ==
  /\ InitStore /\ InitHist /\ InitSched /\ InitBatchIdle /\ InitChunkIdle /\ InitUnitIdle /\ InitRouteIdle
  /\ cronValid \in BOOLEAN
  /\ maxConcurrentEmails = MaxConcurrent
  /\ credsOk = TRUE

Next ==
  \/ CreateTimeCapsule
  \/ Tick
  \/ StartScheduler
  \/ StopScheduler
  \/ StopPoll
  \/ CronFire
  \/ RunSchedulerManually
  \/ ResetSchedulerStats

Spec == Init /\ [][Next]_vars

\* the scheduler with its timers kept going: a registered node-cron task fires again and
\* again, and a stop poller's setInterval keeps ticking
LiveSpec == Init /\ [][Next]_vars /\ WF_vars(CronFire) /\ WF_vars(StopPoll)

\* ======================= the delivery channel =======================

\* EMAIL_CONFIG.maxRetries
EmailMaxRetries == 3

\* SCHEDULER_CONFIG.delayBetweenEmails (the default; parseInt(...) || 2000 is never 0)
delayBetweenEmails == 2000

\* processCapsule's catch: { success: false, capsuleId, error: error.message }
Failure(capsuleId, error) == [success |-> FALSE, capsuleId |-> capsuleId, error |-> error]

\* processCapsule's return after markCapsuleAsSent: { success: true, capsuleId }
Success(capsuleId) == [success |-> TRUE, capsuleId |-> capsuleId, error |-> "none"]

Settled(outcome) == [phase |-> "settled", retryCount |-> 0, outcome |-> outcome]

\* sendTimeCapsuleEmail's catch: retry after retryDelay while retryCount < maxRetries - 1,
\* else return { success: false, error, retries }, which processCapsule turns into a throw
\* that its own catch turns into a failed result
AttemptFailed(capsuleId, retryCount, error) ==
  IF retryCount < EmailMaxRetries - 1
  THEN [phase |-> "retryWait", retryCount |-> retryCount, outcome |-> NoOutcome]
  ELSE Settled(Failure(capsuleId, error))

\* sendTimeCapsuleEmail(capsule, retryCount) up to its first await: createTransporter()
\* throws when validateEmailConfig() fails, else transporter.sendMail is in flight
AttemptStart(capsuleId, retryCount, creds) ==
  IF ~creds
  THEN AttemptFailed(capsuleId, retryCount, "config")
  ELSE [phase |-> "sending", retryCount |-> retryCount, outcome |-> NoOutcome]

\* processCapsule after sendTimeCapsuleEmail returned success: await markCapsuleAsSent, then
\* logger.schedulerSuccess, then return the success result; any throw ends in the catch
AfterDelivered(capsuleId, t, dbOk) ==
  IF ~markCapsuleAsSentOk(t, capsuleId, dbOk) THEN Settled(Failure(capsuleId, "markSent"))
  ELSE IF LoggerCallThrows("schedulerSuccess") THEN Settled(Failure(capsuleId, "logger"))
  ELSE Settled(Success(capsuleId))

\* sendTimeCapsuleEmail after transporter.sendMail resolved: logger.emailSent, then
\* return { success: true }; the logger call is inside the try
AfterSendMail(capsuleId, retryCount, t, dbOk) ==
  IF LoggerCallThrows("emailSent") THEN AttemptFailed(capsuleId, retryCount, "logger")
  ELSE AfterDelivered(capsuleId, t, dbOk)

\* the delivery returned success to processCapsule, which then runs the UPDATE
MarksSentMutAlways(capsuleId, t, dbOk) == TRUE

MarksSent(capsuleId, t, dbOk) ==
  ~LoggerCallThrows("emailSent") /\ markCapsuleAsSentOk(t, capsuleId, dbOk)

\* ======================= the batch processor =======================

\* Array.prototype.slice(a, b) on a list, a and b counted from 0
sliceMutLong(c, a, b) == SubSeq(c, a + 1, Min(b + 1, Len(c)))

sliceMutShort(c, a, b) == SubSeq(c, a + 1, Min(b, Len(c)) - 1)

slice(c, a, b) == SubSeq(c, a + 1, Min(b, Len(c)))

\* for (let i = 0; i < capsules.length; i += m) batches.push(capsules.slice(i, i + m))
RECURSIVE BatchesFrom(_, _, _)
BatchesFrom(c, m, i) ==
  IF i < Len(c) THEN <<slice(c, i, i + m)>> \o BatchesFrom(c, m, i + m) ELSE <<>>

Batches(c, m) == BatchesFrom(c, m, 0)

BatchIds(batch) == {batch[k].id : k \in 1..Len(batch)}

\* await Promise.allSettled(batchPromises)
AllSettledMutAny(batch, tk) == \E id \in BatchIds(batch) : tk[id].phase = "settled"

AllSettled(batch, tk) == \A id \in BatchIds(batch) : tk[id].phase = "settled"

\* batch !== batches[batches.length - 1] && delayBetweenEmails > 0
PauseAfterMutAlways(bs, k) == delayBetweenEmails > 0

PauseAfter(bs, k) == k # Len(bs) /\ delayBetweenEmails > 0

\* batch.map(capsule => processCapsule(capsule)): every capsule of the batch starts its delivery
StartBatch(tk, batch, creds) ==
  [id \in DOMAIN tk |-> IF id \in BatchIds(batch) THEN AttemptStart(id, 0, creds) ELSE tk[id]]

\* the processCapsule calls that have started and not settled: a send in the transport,
\* or a retry waiting for its retryDelay
InFlight(tk) == {id \in DOMAIN tk : tk[id].phase \in {"sending", "retryWait"}}

\* a step in which a capsule of the batch settles while a capsule before it has not settled
SettlesBefore(batch, tk, tk2) ==
  \E i, j \in 1..Len(batch) :
    /\ i < j
    /\ tk[batch[j].id].phase # "settled" /\ tk2[batch[j].id].phase = "settled"
    /\ tk2[batch[i].id].phase # "settled"

\* batchResults.forEach: results.push and the counters
BatchOutcomesMutReverse(batch, tk) ==
  [k \in 1..Len(batch) |-> tk[batch[Len(batch) + 1 - k].id].outcome]

BatchOutcomesMutSkip(batch, tk) == [k \in 1..(Len(batch) - 1) |-> tk[batch[k + 1].id].outcome]

BatchOutcomes(batch, tk) == [k \in 1..Len(batch) |-> tk[batch[k].id].outcome]

CountOk(outs) == Cardinality({k \in 1..Len(outs) : outs[k].success})

\* processBatch(capsules) called with what getCapsulesToSend returned, up to its first await
ProcessBatchCall ==
  /\ batchPc = "idle"
  /\ \E rows \in getCapsulesToSend(table, now) :
       /\ capsulesToSend' = rows
       /\ batches' = Batches(rows, maxConcurrentEmails)
       /\ IF Batches(rows, maxConcurrentEmails) = <<>>
          THEN /\ batchPc' = "done"
               /\ UNCHANGED <<chunkIdx, tasks>>
          ELSE /\ batchPc' = "batch"
               /\ chunkIdx' = 1
               /\ tasks' = StartBatch(tasks, Batches(rows, maxConcurrentEmails)[1], credsOk)
  /\ UNCHANGED <<maxConcurrentEmails, results, dispatched, pausesDone, outOfOrder, credsOk>>
  /\ UNCHANGED <<storeVars, histVars, schedVars, chunkVars, unitVars, routeVars>>

\* transporter.sendMail of one capsule settles: the mail went out, or the send raised
SendMailSettles ==
  /\ \E id \in DOMAIN tasks, delivered \in BOOLEAN, dbOk \in BOOLEAN :
       /\ tasks[id].phase = "sending"
       /\ dispatched' = [dispatched EXCEPT ![id] = IF delivered THEN @ + 1 ELSE @]
       /\ tasks' = [tasks EXCEPT ![id] =
                      IF delivered THEN AfterSendMail(id, tasks[id].retryCount, table, dbOk)
                      ELSE AttemptFailed(id, tasks[id].retryCount, "send")]
       /\ table' = IF delivered /\ MarksSent(id, table, dbOk)
                   THEN UpdateSent(table, id, now) ELSE table
  /\ outOfOrder' = (outOfOrder \/ SettlesBefore(batches[chunkIdx], tasks, tasks'))
  /\ fetchLog' = Touched(fetchLog, table', now)
  /\ UNCHANGED <<now, markLog, marked>>
  /\ UNCHANGED <<maxConcurrentEmails, batchPc, capsulesToSend, batches, chunkIdx, results, pausesDone, credsOk>>
  /\ UNCHANGED <<schedVars, chunkVars, unitVars, routeVars>>

\* the retryDelay timer of one capsule fires: sendTimeCapsuleEmail(capsule, retryCount + 1)
RetryFires ==
  /\ \E id \in DOMAIN tasks :
       /\ tasks[id].phase = "retryWait"
       /\ tasks' = [tasks EXCEPT ![id] = AttemptStart(id, tasks[id].retryCount + 1, credsOk)]
  /\ outOfOrder' = (outOfOrder \/ SettlesBefore(batches[chunkIdx], tasks, tasks'))
  /\ UNCHANGED <<maxConcurrentEmails, batchPc, capsulesToSend, batches, chunkIdx, results, dispatched, pausesDone, credsOk>>
  /\ UNCHANGED <<storeVars, histVars, schedVars, chunkVars, unitVars, routeVars>>

\* Promise.allSettled of the current batch resolves: results and counters, then the pause,
\* or the end of the loop and return results
BatchSettles ==
  /\ batchPc = "batch"
  /\ AllSettled(batches[chunkIdx], tasks)
  /\ LET outs == BatchOutcomes(batches[chunkIdx], tasks)
         ok == CountOk(outs)
         bad == Len(outs) - ok
     IN /\ results' = results \o outs
        /\ processingState' = [processingState EXCEPT !.processedCount = @ + ok,
                                                      !.errorCount = @ + bad]
        /\ config' = [config EXCEPT !.totalProcessed = @ + ok, !.totalErrors = @ + bad]
  /\ IF PauseAfter(batches, chunkIdx)
     THEN /\ batchPc' = "pause"
          /\ UNCHANGED <<chunkIdx, tasks>>
     ELSE IF chunkIdx < Len(batches)
     THEN /\ batchPc' = "batch"
          /\ chunkIdx' = chunkIdx + 1
          /\ tasks' = StartBatch(tasks, batches[chunkIdx + 1], credsOk)
     ELSE /\ batchPc' = "done"
          /\ UNCHANGED <<chunkIdx, tasks>>
  /\ UNCHANGED <<maxConcurrentEmails, capsulesToSend, batches, dispatched, pausesDone, outOfOrder, credsOk>>
  /\ UNCHANGED <<cronValid, cronJobs, pollers, liveCycles, nTriggers, callLog>>
  /\ UNCHANGED <<storeVars, histVars, chunkVars, unitVars, routeVars>>

\* the delayBetweenEmails timer fires: the for loop goes on to the next batch, if there is one
PauseElapses ==
  /\ batchPc = "pause"
  /\ pausesDone' = pausesDone + 1
  /\ IF chunkIdx < Len(batches)
     THEN /\ batchPc' = "batch"
          /\ chunkIdx' = chunkIdx + 1
          /\ tasks' = StartBatch(tasks, batches[chunkIdx + 1], credsOk)
     ELSE /\ batchPc' = "done"
          /\ UNCHANGED <<chunkIdx, tasks>>
  /\ UNCHANGED <<maxConcurrentEmails, capsulesToSend, batches, results, dispatched, outOfOrder, credsOk>>
  /\ UNCHANGED <<storeVars, histVars, schedVars, chunkVars, unitVars, routeVars>>

\* tables createTimeCapsule can have built: pending rows with an open date after creation
PendingTables ==
  UNION {{[i \in 1..n |-> [id |-> i, status |-> "pending", open_date |-> d[i], sent_at |-> NULL]]
            : d \in [1..n -> 1..MaxDate]} : n \in 0..MaxCapsules}

BatchInit ==
  /\ table \in PendingTables
  /\ now = BatchNow
  /\ InitHist /\ InitSched /\ InitChunkIdle /\ InitUnitIdle /\ InitRouteIdle
  /\ cronValid = TRUE
  /\ maxConcurrentEmails \in 1..MaxConcurrent
  /\ credsOk \in BOOLEAN
  /\ batchPc = "idle"
  /\ capsulesToSend = <<>>
  /\ batches = <<>>
  /\ chunkIdx = 0
  /\ tasks = [i \in 1..MaxCapsules |-> IdleTask]
  /\ results = <<>>
  /\ dispatched = [i \in 1..MaxCapsules |-> 0]
  /\ pausesDone = 0
  /\ outOfOrder = FALSE

BatchNext ==
  \/ ProcessBatchCall
  \/ SendMailSettles
  \/ RetryFires
  \/ BatchSettles
  \/ PauseElapses

BatchSpec == BatchInit /\ [][BatchNext]_vars

\* ---- processBatch over capsules that fell due at different times ----
OrderInit ==
  /\ table \in {t \in PendingTables : Len(t) <= MaxRows}
  /\ now = MaxDate
  /\ InitHist /\ InitSched /\ InitBatchIdle /\ InitChunkIdle /\ InitUnitIdle /\ InitRouteIdle
  /\ cronValid = TRUE
  /\ maxConcurrentEmails \in 1..MaxConcurrent
  /\ credsOk \in BOOLEAN

OrderSpec == OrderInit /\ [][BatchNext]_vars

\* ---- resetSchedulerStats called during processBatch ----
\* processBatch is entered from runScheduler with isProcessing set and the per-cycle counters
\* at 0 (lines 142-146), the scheduler started or not
ResetInit ==
  /\ table \in {t \in PendingTables : Len(t) <= MaxRows}
  /\ now = BatchNow
  /\ InitHist /\ InitBatchIdle /\ InitChunkIdle /\ InitUnitIdle /\ InitRouteIdle
  /\ \E started \in BOOLEAN :
       /\ config = [isRunning |-> started, lastRun |-> NULL,
                    nextRun |-> IF started THEN BatchNow + 1 ELSE NULL,
                    totalProcessed |-> 0, totalErrors |-> 0]
       /\ cronJobs = IF started THEN 1 ELSE 0
  /\ processingState = [isProcessing |-> TRUE, startTime |-> BatchNow,
                        processedCount |-> 0, errorCount |-> 0, currentBatch |-> <<>>]
  /\ pollers = 0
  /\ liveCycles = 1
  /\ nTriggers = 1
  /\ callLog = [op |-> "none", result |-> NULL]
  /\ cronValid = TRUE
  /\ maxConcurrentEmails \in 1..MaxConcurrent
  /\ credsOk \in BOOLEAN

ResetNext ==
  \/ BatchNext
  \/ ResetSchedulerStats

ResetSpec == ResetInit /\ [][ResetNext]_vars

\* ---- the partition step alone ----
ChunkInputs ==
  {[k \in 1..n |-> base + k] : n \in 0..MaxChunkLen, base \in 0..MaxChunkBase}

ApplyBatches ==
  /\ ~chunkOut.done
  /\ chunkOut' = [done |-> TRUE, batches |-> Batches(chunkIn, maxConcurrentEmails)]
  /\ UNCHANGED <<chunkIn, storeVars, histVars, schedVars, batchVars, unitVars, routeVars>>

ChunkInit ==
  /\ InitStore /\ InitHist /\ InitSched /\ InitBatchIdle /\ InitUnitIdle /\ InitRouteIdle
  /\ cronValid = TRUE
  /\ credsOk = TRUE
  /\ maxConcurrentEmails \in 1..MaxChunkM
  /\ chunkIn \in ChunkInputs
  /\ chunkOut = [done |-> FALSE, batches |-> <<>>]

ChunkNext == ApplyBatches

ChunkSpec == ChunkInit /\ [][ChunkNext]_vars

\* ---- processCapsule alone ----
\* what sendTimeCapsuleEmail returns: { success: true, ... } or { success: false, error, retries }
EmailResults == {"success", "failure"}

\* processCapsule(capsule): the result it returns for what its awaits yield
processCapsule(capsuleId, emailResult, t, dbOk) ==
  IF emailResult = "success"
  THEN AfterDelivered(capsuleId, t, dbOk).outcome
  ELSE Failure(capsuleId, "email")

\* one call of processCapsule, from its first line to its return
ProcessCapsuleCall ==
  /\ ~pcOut.done
  /\ pcOut' = [done |-> TRUE,
               outcome |-> processCapsule(pcIn.capsuleId, pcIn.emailResult, table, pcIn.dbOk)]
  /\ table' = IF pcIn.emailResult = "success" /\ markCapsuleAsSentOk(table, pcIn.capsuleId, pcIn.dbOk)
              THEN UpdateSent(table, pcIn.capsuleId, now) ELSE table
  /\ fetchLog' = Touched(fetchLog, table', now)
  /\ UNCHANGED <<now, markLog, marked, pcIn, schedVars, batchVars, chunkVars, routeVars>>

CapsuleInit ==
  /\ table \in PendingTables
  /\ now = BatchNow
  /\ InitHist /\ InitSched /\ InitBatchIdle /\ InitChunkIdle /\ InitRouteIdle
  /\ cronValid = TRUE
  /\ credsOk = TRUE
  /\ maxConcurrentEmails = 1
  /\ pcIn \in [capsuleId : Due(table, now), emailResult : EmailResults, dbOk : BOOLEAN]
  /\ pcOut = [done |-> FALSE, outcome |-> NoOutcome]

CapsuleNext == ProcessCapsuleCall

CapsuleSpec == CapsuleInit /\ [][CapsuleNext]_vars

\* ======================= the router =======================

\* segments a request pathname is made of here; "" is what a doubled or trailing slash leaves
PathSegments == {"api", "capsules", "stats", "scheduler", "1", "2", "1abc", ""}

Methods == {"GET", "POST", "DELETE"}

\* pathname === '/api/capsules'
IsCapsulesPath(path) == path = <<"api", "capsules">>

\* pathname.startsWith('/api/capsules/')
StartsWithCapsulesSlash(path) ==
  Len(path) >= 3 /\ path[1] = "api" /\ path[2] = "capsules"

\* pathname === '/api/capsules/stats'
IsStatsPath(path) == path = <<"api", "capsules", "stats">>

\* parseInt(id): the leading digits of the segment, NaN (here NULL) when it has none
parseInt(seg) ==
  IF seg \in {"1", "1abc"} THEN 1
  ELSE IF seg = "2" THEN 2
  ELSE NULL

\* handleRoutes: the if chain over the capsule routes, in the order it is written; every
\* other request goes on to the email, scheduler, upload and documentation routes
handleRoutes(method, path) ==
  IF IsCapsulesPath(path) /\ method = "POST" THEN "createTimeCapsule"
  ELSE IF IsCapsulesPath(path) /\ method = "GET" THEN "getTimeCapsules"
  ELSE IF StartsWithCapsulesSlash(path) /\ method = "GET" THEN "getTimeCapsuleById"
  ELSE IF IsStatsPath(path) /\ method = "GET" THEN "getTimeCapsuleStats"
  ELSE "laterRoutes"

\* getTimeCapsuleById: the status it answers with for the last segment of the pathname
getTimeCapsuleById(path, t, dbOk) ==
  LET id == path[Len(path)]
  IN IF id = "" \/ parseInt(id) = NULL THEN 400
     ELSE IF ~dbOk THEN 500
     ELSE IF UpdatedRows(t, parseInt(id)) = {} THEN 404
     ELSE 200

\* one request through handleRoutes
HandleRequest ==
  /\ ~routed.done
  /\ \E dbOk \in BOOLEAN :
       routed' = [done |-> TRUE,
                  handler |-> handleRoutes(request.method, request.path),
                  status |-> IF handleRoutes(request.method, request.path) = "getTimeCapsuleById"
                             THEN getTimeCapsuleById(request.path, table, dbOk)
                             ELSE NULL]
  /\ UNCHANGED <<request, storeVars, histVars, schedVars, batchVars, chunkVars, unitVars>>

Paths == UNION {[1..n -> PathSegments] : n \in 1..MaxPathLen}

RouteInit ==
  /\ table \in {<<>>, InsertRow(<<>>, MaxDate)}
  /\ now = 0
  /\ InitHist /\ InitSched /\ InitBatchIdle /\ InitChunkIdle /\ InitUnitIdle
  /\ cronValid = TRUE
  /\ credsOk = TRUE
  /\ maxConcurrentEmails = 1
  /\ request \in [method : Methods, path : Paths]
  /\ routed = [done |-> FALSE, handler |-> "none", status |-> 0]

RouteNext == HandleRequest

RouteSpec == RouteInit /\ [][RouteNext]_vars

\* ======================= claims =======================

\* C1: at most one runScheduler invocation is past its guard and unsettled, and a
\* runScheduler invocation that arrives while isProcessing is true changes nothing: not the
\* flag, the start time, the per-cycle counters or the batch, not the store, not a delivery,
\* not the totals, and it starts no cycle.
C1_SingleFlight ==
  /\ [](liveCycles <= 1)
  /\ [][(processingState.isProcessing /\ nTriggers' # nTriggers)
          => /\ processingState' = processingState
             /\ liveCycles' = liveCycles
             /\ table' = table
             /\ dispatched' = dispatched
             /\ batchPc' = batchPc
             /\ config' = config]_vars

\* C1 witness: a manual run arrived while isProcessing was true and was skipped at the guard,
\* at a time later than the start time the flag was set at.
C1_Witness ==
  /\ processingState.isProcessing
  /\ callLog.op = "manual" /\ callLog.result = "success:true"
  /\ nTriggers >= 2
  /\ processingState.startTime < now

\* C2 (as claimed): isProcessing is true only while a runScheduler invocation that set it is
\* still executing; once that invocation has settled the scheduler is Idle again.
C2_RunningReturnsToIdle ==
  processingState.isProcessing => liveCycles > 0

\* C3: when processBatch has returned, every capsule getCapsulesToSend handed it has exactly
\* one result, and the capsule is either sent with a success result or still pending with a
\* failed result that carries an error.
C3_EveryFetchedCapsuleHasOutcome ==
  batchPc = "done" =>
    \A k \in 1..Len(capsulesToSend) :
      LET id == capsulesToSend[k].id
          outs == {j \in 1..Len(results) : results[j].capsuleId = id}
      IN /\ Cardinality(outs) = 1
         /\ \A j \in outs :
              \/ results[j].success /\ table[id].status = "sent" /\ table[id].sent_at # NULL
              \/ /\ ~results[j].success /\ results[j].error # "none"
                 /\ table[id].status = "pending" /\ table[id].sent_at = NULL

\* C3 witness: processBatch returned for three fetched capsules in two batches, one of them
\* after its mail had gone out, and each has its result.
C3_Witness ==
  /\ batchPc = "done"
  /\ Len(capsulesToSend) = 3 /\ Len(batches) = 2 /\ Len(results) = 3
  /\ \E id \in DOMAIN dispatched : dispatched[id] > 0

\* C4 (as claimed): no capsule is handed to the mail transport successfully more than once.
C4_NoDuplicateDispatch ==
  \A id \in DOMAIN dispatched : dispatched[id] <= 1

C9_Concat(b) ==
  LET RECURSIVE cat(_)
      cat(k) == IF k > Len(b) THEN <<>> ELSE b[k] \o cat(k + 1)
  IN cat(1)

\* C9: the partition of n capsules with maxConcurrentEmails m >= 1 has ceil(n/m) batches, each
\* of m capsules except the last, which has between 1 and m, and the batches joined in order
\* are the input; 7 capsules with m = 3 give batches of 3, 3 and 1.
C9_ChunksPartition ==
  chunkOut.done =>
    LET b == chunkOut.batches
        n == Len(chunkIn)
        m == maxConcurrentEmails
    IN /\ Len(b) * m >= n /\ (Len(b) - 1) * m < n
       /\ \A k \in 1..(Len(b) - 1) : Len(b[k]) = m
       /\ Len(b) > 0 => Len(b[Len(b)]) \in 1..m
       /\ C9_Concat(b) = chunkIn
       /\ (n = 7 /\ m = 3) => [k \in 1..Len(b) |-> Len(b[k])] = <<3, 3, 1>>

\* C9 witness: 7 capsules were partitioned with m = 3.
C9_Witness ==
  /\ chunkOut.done
  /\ Len(chunkIn) = 7 /\ maxConcurrentEmails = 3
  /\ Len(chunkOut.batches) = 3

\* C10: a capsule of batch k has its delivery started only when every capsule of batch k-1 has
\* settled and k-1 pauses have elapsed; pauses are taken only between batches, so there are
\* never more than (number of batches - 1) of them and exactly that many when processBatch
\* has returned.
C10_ChunkOrder ==
  /\ \A k \in 2..Len(batches) :
       (\E id \in BatchIds(batches[k]) : tasks[id].phase # "idle")
         => /\ \A id \in BatchIds(batches[k - 1]) : tasks[id].phase = "settled"
            /\ pausesDone >= k - 1
  /\ pausesDone <= (IF Len(batches) = 0 THEN 0 ELSE Len(batches) - 1)
  /\ (batchPc = "done" /\ Len(batches) > 0) => pausesDone = Len(batches) - 1
  /\ batchPc = "pause" => chunkIdx < Len(batches)

\* C10 witness: the second of two batches has a delivery in flight after the one pause.
C10_Witness ==
  /\ Len(batches) = 2 /\ Len(batches[1]) = 2
  /\ batchPc = "batch" /\ chunkIdx = 2 /\ pausesDone = 1
  /\ \E id \in BatchIds(batches[2]) : tasks[id].phase = "sending"

\* C5 (as claimed): markCapsuleAsSent called for an existing capsule succeeds when no earlier
\* call for that id has succeeded (and the query ran), and a call made after a successful one
\* fails and changes neither the capsule's status nor its sentAt.
C5_SecondMarkSentFails ==
  /\ (markLog.dbOk /\ ~markLog.priorOk /\ markLog.capsuleId \in 1..Len(table)) => markLog.ok
  /\ markLog.priorOk => (~markLog.ok /\ ~markLog.changed)

\* C6: in every step a capsule's status either stays as it is or goes from pending to sent
\* or from pending to failed; a sent or failed capsule keeps its status, and no row disappears.
C6_StatusTransitions ==
  [][/\ Len(table') >= Len(table)
     /\ \A i \in 1..Len(table) :
          table'[i].status # table[i].status =>
            (table[i].status = "pending" /\ table'[i].status \in {"sent", "failed"})]_vars

\* C6 witness: markCapsuleAsSent ran again for a capsule that was already sent, and it is still sent.
C6_Witness ==
  /\ markLog.ok /\ markLog.priorOk
  /\ table[markLog.capsuleId].status = "sent"

\* C7: in every state of the store a capsule has sentAt set exactly when its status is sent,
\* in the row and in the formatted capsule; a pending capsule has no sentAt.
C7_SentAtIffSent ==
  \A i \in 1..Len(table) :
    /\ (table[i].sent_at # NULL) <=> (table[i].status = "sent")
    /\ (formatTimeCapsuleResponse(table[i]).sentAt # NULL) <=> (table[i].status = "sent")

\* C7 witness: the store holds a sent capsule with sentAt set next to a pending one without.
C7_Witness ==
  \E i, j \in 1..Len(table) :
    /\ table[i].status = "sent" /\ table[i].sent_at # NULL /\ markLog.ok
    /\ table[j].status = "pending" /\ table[j].sent_at = NULL

C8_ExactAndAscending ==
  (fetchLog.valid /\ fetchLog.storeSame /\ fetchLog.nowSame) =>
    LET rows == fetchLog.rows
        due == {i \in 1..Len(table) : table[i].status = "pending" /\ table[i].open_date <= now}
    IN /\ {rows[k].id : k \in 1..Len(rows)} = due
       /\ Len(rows) = Cardinality(due)
       /\ \A k \in 1..Len(rows) :
            /\ rows[k].openDate = table[rows[k].id].open_date
            /\ rows[k].status = "pending"
            /\ rows[k].sentAt = NULL
       /\ \A k, l \in 1..Len(rows) : k < l => rows[k].openDate <= rows[l].openDate

C8_DistinctDates(rows) ==
  \A k, l \in 1..Len(rows) : k # l => rows[k].openDate # rows[l].openDate

C11_SiblingsReachSent ==
  batchPc = "done" =>
    \A k \in 1..Len(results) :
      (dispatched[results[k].capsuleId] > 0 /\ results[k].error # "markSent")
        => /\ results[k].success
           /\ table[results[k].capsuleId].status = "sent"

C13_ResultsInInputOrder ==
  /\ Len(results) <= Len(capsulesToSend)
  /\ \A i \in 1..Len(results) : results[i].capsuleId = capsulesToSend[i].id
  /\ batchPc = "done" => Len(results) = Len(capsulesToSend)

\* C13 witness: processBatch returned three results for three capsules after a capsule had
\* settled before one placed ahead of it in its batch.
C13_Witness ==
  /\ batchPc = "done"
  /\ Len(capsulesToSend) = 3 /\ Len(results) = 3
  /\ outOfOrder

\* C14 (as claimed): within one call of sendTimeCapsuleEmail a further attempt is made only
\* after an attempt that failed to send: an attempt whose mail the transport delivered is
\* not followed by the retry delay and another attempt.
C14_RetryOnlyAfterFailedSend ==
  [][\A id \in DOMAIN tasks :
       dispatched'[id] > dispatched[id] => tasks'[id].phase # "retryWait"]_vars

C16_NoCycleAfterStop ==
  [][(~config.isRunning /\ nTriggers' # nTriggers /\ callLog'.op = "cron")
       => processingState' = processingState]_vars

\* C17 (as claimed): a call of startScheduler made while the scheduler is running or with an
\* invalid cron pattern returns false and leaves SCHEDULER_CONFIG and the started timers as
\* they were; any other call starts one timer, sets isRunning and returns true.
C17_StartReturnsBoolean ==
  [][(callLog'.op = "start" /\ (callLog' # callLog \/ cronJobs' # cronJobs))
       => IF config.isRunning \/ ~cronValid
          THEN /\ callLog'.result = "false"
               /\ config' = config /\ cronJobs' = cronJobs
          ELSE /\ callLog'.result = "true"
               /\ config'.isRunning /\ cronJobs' = cronJobs + 1]_vars

C19_FailedCycleCountsAndIdles ==
  [][(nTriggers' # nTriggers /\ liveCycles = 0)
       => /\ callLog'.result \notin {"skipped", "success:true"}
          /\ liveCycles' = 0
               => /\ config'.totalErrors = config.totalErrors + 1
                  /\ ~processingState'.isProcessing
                  /\ table' = table /\ dispatched' = dispatched]_vars

\* C20 (as claimed): a cycle started while no pending capsule is due changes no capsule,
\* delivers nothing and leaves the scheduler idle.
C20_EmptyCycleGoesIdle ==
  [][(nTriggers' # nTriggers /\ ~processingState.isProcessing /\ Due(table, now) = {})
       => /\ table' = table /\ dispatched' = dispatched
          /\ ~processingState'.isProcessing]_vars

\* C21 (as claimed): when processBatch has returned and no result carries a failure of the
\* transport, of the mail configuration or of markCapsuleAsSent, every capsule it was given
\* was delivered exactly once and is sent with sent_at set.
C21_AllSucceedAllSentOnce ==
  (batchPc = "done" /\ \A k \in 1..Len(results) : results[k].error \notin {"send", "config", "markSent"})
    => \A k \in 1..Len(capsulesToSend) :
         LET id == capsulesToSend[k].id
         IN /\ dispatched[id] = 1
            /\ table[id].status = "sent" /\ table[id].sent_at # NULL

\* C22 (as claimed): when the mail credentials are absent a delivery is refused at once: no
\* send is in flight or delivered for it, and it never waits in the retry delay.
C22_MissingCredentialsFailFast ==
  ~credsOk =>
    \A id \in DOMAIN tasks :
      /\ tasks[id].phase \notin {"sending", "retryWait"}
      /\ dispatched[id] = 0

\* C23 (as claimed): a GET request for /api/capsules/stats is handled by getTimeCapsuleStats,
\* and not by getTimeCapsuleById.
C23_StatsRouteReachesStats ==
  (routed.done /\ request.method = "GET" /\ IsStatsPath(request.path))
    => routed.handler = "getTimeCapsuleStats"

C25_OutcomesCounted ==
  /\ config.totalProcessed = CountOk(results)
  /\ config.totalErrors = Len(results) - CountOk(results)
  /\ processingState.processedCount = config.totalProcessed
  /\ processingState.errorCount = config.totalErrors

\* C25 (as claimed), the part about aborted cycles: a cycle that passes the guard starts with
\* its per-cycle counters at 0, and a cycle aborted by a cycle-level error adds one to
\* totalErrors.
C25_AbortedCycleCounted ==
  [][(nTriggers' # nTriggers /\ callLog'.result # "skipped")
       => /\ processingState'.processedCount = 0 /\ processingState'.errorCount = 0
          /\ (callLog'.result \in {"caught", "success:false"}
                => config'.totalErrors = config.totalErrors + 1)]_vars

\* C26: of two capsules fetched in the same cycle, the one with the later open date never has
\* its delivery started while the delivery of the one with the earlier open date has not started.
C26_EarliestFirst ==
  \A i, j \in 1..Len(capsulesToSend) :
    LET a == capsulesToSend[i]
        b == capsulesToSend[j]
    IN (a.openDate < b.openDate /\ tasks[b.id] # IdleTask) => tasks[a.id] # IdleTask

\* two capsules with different open dates in different batches: the earlier one has settled,
\* the later one is in flight
C26_Witness ==
  /\ Len(capsulesToSend) = 2
  /\ capsulesToSend[1].openDate < capsulesToSend[2].openDate
  /\ chunkIdx = 2
  /\ tasks[capsulesToSend[1].id].phase = "settled"
  /\ capsulesToSend[2].id \in InFlight(tasks)

\* C27 (as claimed): while the scheduler is started and not stopped, a pending capsule that
\* is due eventually reaches sent.
C27_DueCapsuleEventuallySent ==
  \A i \in 1..MaxRows :
    (config.isRunning /\ cronJobs > 0 /\ i \in Due(table, now))
      ~> (~config.isRunning \/ (i <= Len(table) /\ table[i].status = "sent"))

C29_OneTimerIffRunning ==
  /\ cronJobs <= 1
  /\ (cronJobs > 0) <=> config.isRunning

\* C30: a call of resetSchedulerStats sets totalProcessed and totalErrors to 0 and lastRun to
\* null and changes nothing else: not isRunning or nextRun, not isProcessing, the cycle's start
\* time, its counters or its batch, not the registered timers, the deliveries in progress or
\* any capsule record, whether or not a cycle is running.
C30_ResetFrame ==
  [][ResetSchedulerStats =>
       /\ config'.totalProcessed = 0 /\ config'.totalErrors = 0 /\ config'.lastRun = NULL
       /\ config'.isRunning = config.isRunning /\ config'.nextRun = config.nextRun
       /\ UNCHANGED <<processingState, cronJobs, pollers, liveCycles>>
       /\ UNCHANGED <<table, now, batchVars>>]_vars

\* a reset has been called in the middle of processBatch, after a batch had counted errors,
\* with the scheduler started
C30_Witness ==
  /\ callLog.op = "reset"
  /\ batchPc \in {"batch", "pause"}
  /\ processingState.isProcessing
  /\ processingState.errorCount > 0
  /\ config.totalErrors = 0
  /\ config.isRunning

====
